---- MODULE Spec2Model ----
(***************************************************************************)
(* A model of MoarVM's instance manager, src/src/moar.c: the log-path      *)
(* sanitizer fopen_perhaps_with_pid, the instance setters                  *)
(* (MVM_vm_set_lib_path and friends), the life cycle of an instance       *)
(* (MVM_vm_create_instance, MVM_vm_exit, MVM_vm_destroy_instance), and    *)
(* the bytecode dump MVM_vm_dump_file.                                     *)
(*                                                                         *)
(* The specifications of the module:                                       *)
(*   SpecPath     fopen_perhaps_with_pid on every short path string        *)
(*   SpecLib      the setters on an existing instance                      *)
(*   Spec         bootstrap, running threads, fast exit and teardown       *)
(*   SpecInterns  bootstrap, callsite interning, teardown of the pool      *)
(*   SpecLocks    the per-resource mutexes while threads run               *)
(*   SpecLog      a thread's specialization log, src/src/spesh/log.h       *)
(*   SpecDump     the output loop of MVM_vm_dump_file                      *)
(***************************************************************************)
EXTENDS Integers, Sequences, FiniteSets, TLC

VARIABLES
    \* ---- fopen_perhaps_with_pid (SpecPath)
    fp_pc,          \* "idle" | "called" | "returned" | "crashed"
    fp_path,        \* the path argument, a sequence of characters
    fp_mode,        \* the mode argument
    fp_pid,         \* what getpid() returns in this process
    fp_file,        \* the name handed to fopen, <<>> before the call
    fp_formatted,   \* TRUE when path was handed to snprintf as its format
    fp_result,      \* what fopen returned: "none" | "FILE" | "NULL"
    \* ---- the setters on an instance (SpecLib)
    lib_path,       \* instance->lib_path, slot -> path or "NULL"
    exec_name,      \* instance->exec_name
    prog_name,      \* instance->prog_name
    num_clargs,     \* instance->num_clargs
    lp_count,       \* the count argument of the last MVM_vm_set_lib_path
    lp_arg,         \* the lib_path argument of that call, <<>> before
    lp_prev,        \* instance->lib_path as that call found it
    lp_proc,        \* the process: "running" | "exited"
    lp_status,      \* its exit status once exited, -1 before
    \* ---- the life cycle of an instance (Spec)
    pc,             \* where the main thread is, see the actions
    exit_status,    \* the status the process ended with, -1 before
    env,            \* the environment as far as getenv has read it
    instance,       \* the fields of MVMInstance the model follows
    trace,          \* the calls made so far, in order
    threads,        \* spawned foreground threads: id -> "running" | "exited"
    \* ---- the mutexes of the instance at run time (SpecLocks)
    lock_want,      \* thread id -> the resource it is after, or "none"
    lock_held,      \* thread id -> the mutexes it holds
    \* ---- a thread's specialization log (SpecLog)
    sl_policy,      \* what an append to a full buffer does: "drop" | "handoff"
    sl_log,         \* the buffer the thread logs to: its id, 0 for none
    sl_used,        \* the entries in that buffer
    sl_limit,       \* the capacity of that buffer
    sl_last,        \* the outcome of the last append, "none" before
    sl_sent,        \* the buffers handed to the specialization worker
    \* ---- MVM_vm_dump_file (SpecDump)
    df_pc,          \* "idle" | "loop" | "done"
    df_dump,        \* the string MVM_bytecode_dump returned
    df_dumplen,     \* size_t dumplen
    df_position,    \* int position
    df_written,     \* size_t written of the last turn of the loop, 0 before
    df_out,         \* the bytes standard output has taken, in order
    df_fails        \* the writes that have failed so far

fp_vars == <<fp_pc, fp_path, fp_mode, fp_pid, fp_file, fp_formatted, fp_result>>

lp_vars == <<lib_path, exec_name, prog_name, num_clargs, lp_count, lp_arg,
             lp_prev, lp_proc, lp_status>>

vm_vars == <<pc, exit_status, env, instance, trace, threads>>

lock_vars == <<lock_want, lock_held>>

sl_vars == <<sl_policy, sl_log, sl_used, sl_limit, sl_last, sl_sent>>

df_vars == <<df_pc, df_dump, df_dumplen, df_position, df_written, df_out,
             df_fails>>

vars == <<fp_vars, lp_vars, vm_vars, lock_vars, sl_vars, df_vars>>

\* What an action of one specification leaves alone.
not_fp_vars == <<lp_vars, vm_vars, lock_vars, sl_vars, df_vars>>
not_lp_vars == <<fp_vars, vm_vars, lock_vars, sl_vars, df_vars>>
not_vm_vars == <<fp_vars, lp_vars, lock_vars, sl_vars, df_vars>>
not_lock_vars == <<fp_vars, lp_vars, sl_vars, df_vars>>
not_sl_vars == <<fp_vars, lp_vars, vm_vars, lock_vars, df_vars>>
not_df_vars == <<fp_vars, lp_vars, vm_vars, lock_vars, sl_vars>>

(***************************************************************************)
(* Bounds of the model.                                                    *)
(***************************************************************************)
MaxPathLen == 5
MaxPid == 12
\* The number of slots of instance->lib_path.  The array is declared outside
\* moar.c, which only takes its size (line 511).
LibPathSlots == 3
MaxArgc == 1
\* At most this many variables are present in the environment.
MaxEnvSet == 3
\* At most this many threads are spawned.
MaxThreads == 2

\* The arities the callsite intern pool has a list for, and the callsites a
\* program interns.
ArityLimit == 2

MaxInterned == 2

\* A capacity a specialization log can be configured with, and the buffers
\* a thread hands off.
ConfiguredEntries == 2

MaxLogs == 2

\* The longest dump MVM_bytecode_dump returns, and the writes that fail
\* while it is put out.
MaxDumpLen == 3

MaxWriteFailures == 2

(***************************************************************************)
(* Strings are sequences of one-character strings.  A path is built from   *)
(* '%', 'd' and one other letter: "%d" is the directive the code looks     *)
(* for, "%%" the escape, and "%a" a directive that is not "%d".            *)
(***************************************************************************)
Chars == {"%", "d", "a"}

Paths == UNION {[1..n -> Chars] : n \in 1..MaxPathLen}

Pids == 1..MaxPid

Min(a, b) == IF a < b THEN a ELSE b

Take(s, n) == SubSeq(s, 1, Min(n, Len(s)))

\* strstr(haystack, needle) != NULL
strstr(haystack, needle) ==
    \E i \in 1..(Len(haystack) - Len(needle) + 1) :
        SubSeq(haystack, i, i + Len(needle) - 1) = needle

\* The sanitizing loop of fopen_perhaps_with_pid, lines 32-40.  i is the C
\* index plus one.  It returns found_percents.
RECURSIVE CountPercents(_, _, _)
CountPercents(path, i, found_percents) ==
    IF i > Len(path) THEN found_percents
    ELSE IF path[i] = "%"
         THEN IF i + 1 <= Len(path) /\ path[i + 1] = "%"
              THEN CountPercents(path, i + 2, found_percents)
              ELSE CountPercents(path, i + 1, found_percents + 1)
         ELSE CountPercents(path, i + 1, found_percents)

\* found_percents > 1 with the bound changed: a mutant of SanitizerBails.
SanitizerBails_gt2(path) == CountPercents(path, 1, 0) > 2

\* found_percents > 1 as found_percents >= 1: a mutant of SanitizerBails.
SanitizerBails_ge1(path) == CountPercents(path, 1, 0) >= 1

\* Line 43: "just bail out if there's more than one directive".
SanitizerBails(path) == CountPercents(path, 1, 0) > 1

DigitChar == <<"0", "1", "2", "3", "4", "5", "6", "7", "8", "9">>

RECURSIVE Digits(_)
Digits(n) ==
    IF n < 10 THEN <<DigitChar[n + 1]>>
    ELSE Digits(n \div 10) \o <<DigitChar[(n % 10) + 1]>>

\* What "%d" prints for the pid passed at line 56.  getpid() returns a pid_t,
\* an int widened to MVMint64; the conversion reads back the int.
FormatInt(v) == IF v < 0 THEN <<"-">> \o Digits(-v) ELSE Digits(v)

\* What a conversion with no matching argument may print: arbitrary text.
Garbage == {<<>>, <<"?">>}

\* The outputs snprintf(buf, size, fmt, pid) can produce for the format from
\* position i on.  "%%" prints '%', "%d" prints the pid, any other
\* conversion and a '%' that ends the format are undefined: they print
\* arbitrary text (or crash, see UndefinedFormat).
RECURSIVE Format(_, _, _)
Format(fmt, i, pid) ==
    IF i > Len(fmt) THEN {<<>>}
    ELSE IF fmt[i] # "%"
         THEN {<<fmt[i]>> \o r : r \in Format(fmt, i + 1, pid)}
    ELSE IF i = Len(fmt) THEN Garbage
    ELSE IF fmt[i + 1] = "%"
         THEN {<<"%">> \o r : r \in Format(fmt, i + 2, pid)}
    ELSE IF fmt[i + 1] = "d"
         THEN {FormatInt(pid) \o r : r \in Format(fmt, i + 2, pid)}
    ELSE {g \o r : g \in Garbage, r \in Format(fmt, i + 2, pid)}

\* The format holds a conversion whose behaviour is undefined with the one
\* integer argument of line 56.
RECURSIVE UndefinedFormat(_, _)
UndefinedFormat(fmt, i) ==
    IF i > Len(fmt) THEN FALSE
    ELSE IF fmt[i] # "%" THEN UndefinedFormat(fmt, i + 1)
    ELSE IF i = Len(fmt) THEN TRUE
    ELSE IF fmt[i + 1] \in {"%", "d"} THEN UndefinedFormat(fmt, i + 2)
    ELSE TRUE

\* snprintf(fixed_path, path_length + 16, path, pid), line 56: the output is
\* cut to size - 1 characters.
snprintf(size, fmt, pid) == {Take(r, size - 1) : r \in Format(fmt, 1, pid)}

FopenResults == {"FILE", "NULL"}

\* The process has one of the pids in P.
InitFp(P) ==
    /\ fp_pc = "idle"
    /\ fp_path = <<>>
    /\ fp_mode = "w"
    /\ fp_pid \in P
    /\ fp_file = <<>>
    /\ fp_formatted = FALSE
    /\ fp_result = "none"

\* A caller of fopen_perhaps_with_pid, lines 190, 221, 235 and 260: the path
\* is a non-empty value of the environment, the mode "w" or "a".
FpCall ==
    /\ fp_pc = "idle"
    /\ \E p \in Paths, m \in {"w", "a"} :
        /\ fp_path' = p
        /\ fp_mode' = m
    /\ fp_pc' = "called"
    /\ fp_file' = <<>>
    /\ fp_formatted' = FALSE
    /\ fp_result' = "none"
    /\ UNCHANGED <<fp_pid, not_fp_vars>>

\* return fopen(path, mode), lines 44 and 62.
FpOpenLiteral ==
    /\ fp_file' = fp_path
    /\ fp_formatted' = FALSE
    /\ fp_result' \in FopenResults
    /\ fp_pc' = "returned"

\* Lines 46-59: format the path with the pid and open the result.
FpOpenFormatted ==
    /\ fp_formatted' = TRUE
    /\ \/ /\ \E fixed_path \in snprintf(Len(fp_path) + 16, fp_path, fp_pid) :
                fp_file' = fixed_path
          /\ fp_result' \in FopenResults
          /\ fp_pc' = "returned"
       \/ /\ UndefinedFormat(fp_path, 1)
          /\ fp_file' = <<>>
          /\ fp_result' = "none"
          /\ fp_pc' = "crashed"

\* static FILE *fopen_perhaps_with_pid(char *path, const char *mode)
fopen_perhaps_with_pid ==
    /\ fp_pc = "called"
    /\ IF strstr(fp_path, <<"%", "d">>)
       THEN IF SanitizerBails(fp_path)
            THEN FpOpenLiteral
            ELSE FpOpenFormatted
       ELSE FpOpenLiteral
    /\ UNCHANGED <<fp_path, fp_mode, fp_pid, not_fp_vars>>

\* The caller takes the result; the next call may follow.
FpReturn ==
    /\ fp_pc = "returned"
    /\ fp_pc' = "idle"
    /\ fp_path' = <<>>
    /\ fp_mode' = "w"
    /\ fp_file' = <<>>
    /\ fp_formatted' = FALSE
    /\ fp_result' = "none"
    /\ UNCHANGED <<fp_pid, not_fp_vars>>

NextPath == FpCall \/ fopen_perhaps_with_pid \/ FpReturn

(***************************************************************************)
(* The setters, lines 497-524, on an instance that create_instance         *)
(* returned: MVM_calloc (line 76) left every field zero.                   *)
(***************************************************************************)
\* enum { MAX_COUNT = sizeof instance->lib_path / sizeof *instance->lib_path }
MAX_COUNT == LibPathSlots

Names == {"a", "b"}

InitLp ==
    /\ lib_path = [i \in 1..MAX_COUNT |-> "NULL"]
    /\ exec_name = "NULL"
    /\ prog_name = "NULL"
    /\ num_clargs = 0
    /\ lp_count = 0
    /\ lp_arg = <<>>
    /\ lp_prev = [i \in 1..MAX_COUNT |-> "NULL"]
    /\ lp_proc = "running"
    /\ lp_status = -1

\* MVM_panic(exitCode, ...): prints the message and ends the process with
\* exitCode.  It does not return.
MVM_panic(exitCode) ==
    /\ lp_proc' = "exited"
    /\ lp_status' = exitCode

\* The check with the copy done first: a mutant of StoreLibPath.
StoreLibPath_copy_first(count, arr) ==
    [i \in 1..MAX_COUNT |-> IF i <= count THEN arr[i] ELSE lib_path[i]]

\* Lines 515-516 when count > MAX_COUNT: nothing has been stored when
\* MVM_panic is called.
StoreLibPath(count, arr) == lib_path

\* The loop without the clearing of the remainder: a mutant of CopyLibPath.
CopyLibPath_no_clear(count, arr) ==
    [i \in 1..MAX_COUNT |-> IF i <= count THEN arr[i] ELSE lib_path[i]]

\* Lines 518-523: the first count slots take the paths, the rest NULL.
CopyLibPath(count, arr) ==
    [i \in 1..MAX_COUNT |-> IF i <= count THEN arr[i] ELSE "NULL"]

\* void MVM_vm_set_lib_path(MVMInstance *instance, int count,
\*                          const char **lib_path)
MVM_vm_set_lib_path ==
    /\ lp_proc = "running"
    /\ \E count \in 0..(MAX_COUNT + 1) :
        \E arr \in [1..count -> Names] :
            /\ lp_count' = count
            /\ lp_arg' = arr
            /\ lp_prev' = lib_path
            /\ IF count > MAX_COUNT
               THEN /\ lib_path' = StoreLibPath(count, arr)
                    /\ MVM_panic(1)
               ELSE /\ lib_path' = CopyLibPath(count, arr)
                    /\ UNCHANGED <<lp_proc, lp_status>>
    /\ UNCHANGED <<exec_name, prog_name, num_clargs, not_lp_vars>>

\* void MVM_vm_set_clargs(MVMInstance *instance, int argc, char **argv)
MVM_vm_set_clargs ==
    /\ lp_proc = "running"
    /\ \E argc \in 0..MaxArgc : num_clargs' = argc
    /\ UNCHANGED <<lib_path, exec_name, prog_name, lp_count, lp_arg, lp_prev,
                   lp_proc, lp_status, not_lp_vars>>

\* void MVM_vm_set_exec_name(MVMInstance *instance, const char *exec_name)
MVM_vm_set_exec_name ==
    /\ lp_proc = "running"
    /\ \E n \in Names : exec_name' = n
    /\ UNCHANGED <<lib_path, prog_name, num_clargs, lp_count, lp_arg, lp_prev,
                   lp_proc, lp_status, not_lp_vars>>

\* void MVM_vm_set_prog_name(MVMInstance *instance, const char *prog_name)
MVM_vm_set_prog_name ==
    /\ lp_proc = "running"
    /\ \E n \in Names : prog_name' = n
    /\ UNCHANGED <<lib_path, exec_name, num_clargs, lp_count, lp_arg, lp_prev,
                   lp_proc, lp_status, not_lp_vars>>

NextLib ==
    \/ MVM_vm_set_lib_path
    \/ MVM_vm_set_clargs
    \/ MVM_vm_set_exec_name
    \/ MVM_vm_set_prog_name

(***************************************************************************)
(* The life cycle of an instance: MVM_vm_create_instance, the threads the  *)
(* program spawns, MVM_vm_exit and MVM_vm_destroy_instance.                *)
(*                                                                         *)
(* The main thread runs each function one block of statements at a time;   *)
(* every call a block makes is appended to trace, in the order of the      *)
(* source.  getenv draws the value of a variable when the code first reads *)
(* it, and env keeps what was read: the environment does not change.       *)
(***************************************************************************)
EnvNames ==
    {"MVM_SPESH_LOG", "MVM_SPESH_DISABLE", "MVM_SPESH_INLINE_DISABLE",
     "MVM_SPESH_OSR_DISABLE", "MVM_SPESH_NODELAY", "MVM_SPESH_LIMIT",
     "MVM_JIT_DISABLE", "MVM_JIT_LOG", "MVM_JIT_BYTECODE_DIR",
     "MVM_DYNVAR_LOG", "MVM_NFA_DEB", "MVM_CROSS_THREAD_WRITE_LOG",
     "MVM_CROSS_THREAD_WRITE_LOG_INCLUDE_LOCKED", "MVM_COVERAGE_LOG"}

\* What getenv returns: NULL for a variable that is not set, or its value,
\* the empty string or "1".
EnvValues == {"NULL", "", "1"}

\* strlen and atoi on the two values a variable can have.
strlen(s) == IF s = "" THEN 0 ELSE 1

atoi(s) == IF s = "1" THEN 1 ELSE 0

\* The variables the environment holds, among those read so far.
Present(e) == {n \in EnvNames : e[n] \notin {"unread", "NULL"}}

\* getenv returns what the environment holds, the same at every read, and
\* the environment holds few variables.
WithinEnvBound(e) ==
    /\ \A n \in EnvNames : env[n] \in {"unread", e[n]}
    /\ Cardinality(Present(e)) <= MaxEnvSet

\* One call: the function, what it is applied to, and a further argument.
Ev3(op, obj, arg) == [op |-> op, obj |-> obj, arg |-> arg]

Ev(op, obj) == Ev3(op, obj, "")

\* The FILE* a successful or failed fopen of a sink yields.
Fh(sink, result) == IF result = "FILE" THEN sink ELSE "NULL"

\* MVM_calloc(1, sizeof(MVMInstance)), line 76: every field is zero.
InstanceZero ==
    [main_thread_id |-> 0,
     thread_obj_thread_id |-> 0,
     next_user_thread_id |-> 0,
     num_permroots |-> 0,
     alloc_permroots |-> 0,
     instrumentation_level |-> 0,
     spesh_log_fh |-> "NULL",
     spesh_enabled |-> 0,
     spesh_inline_enabled |-> 0,
     spesh_osr_enabled |-> 0,
     spesh_nodelay |-> 0,
     spesh_limit |-> 0,
     jit_enabled |-> 0,
     jit_log_fh |-> "NULL",
     jit_bytecode_map |-> "NULL",
     jit_bytecode_dir |-> "NULL",
     jit_seq_nr |-> 0,
     dynvar_log_fh |-> "NULL",
     nfa_debug_enabled |-> 0,
     cross_thread_write_logging |-> 0,
     cross_thread_write_logging_include_locked |-> 0,
     coverage_logging |-> 0,
     coverage_log_fh |-> "NULL",
     callsite_interns |-> <<>>]

\* The process enters MVM_vm_create_instance in the environment e.
InitVmIn(e) ==
    /\ pc = "start"
    /\ exit_status = -1
    /\ env = e
    /\ instance = InstanceZero
    /\ trace = <<>>
    /\ threads = <<>>

InitVm == InitVmIn([n \in EnvNames |-> "unread"])

\* init_mutex, lines 14-20, when uv_mutex_init fails at position k of the
\* block evs: the calls before it, the diagnostic with the name given at
\* the call, exit(1).
InitMutexFails(evs, k) ==
    SubSeq(evs, 1, k - 1)
        \o <<Ev("uv_mutex_init_failed", evs[k].obj),
             Ev3("fprintf", "stderr", evs[k].arg),
             Ev("exit", "1")>>

\* A block of calls runs to its end, or one of its init_mutex fails and the
\* process ends with status 1.
RunBlock(evs, next_pc) ==
    \/ /\ trace' = trace \o evs
       /\ pc' = next_pc
       /\ UNCHANGED exit_status
    \/ \E k \in {i \in 1..Len(evs) : evs[i].op = "init_mutex"} :
        /\ trace' = trace \o InitMutexFails(evs, k)
        /\ pc' = "exited"
        /\ exit_status' = 1

\* Lines 81-84 with the counter started at the main thread's own id: a
\* mutant of FirstThreadIds.
FirstThreadIds_counter_one(i) ==
    [i EXCEPT !.main_thread_id = 1, !.next_user_thread_id = 1]

\* Lines 81-84: the main thread's context gets id 1, the next thread to be
\* created gets id 2.
FirstThreadIds(i) ==
    [i EXCEPT !.main_thread_id = 1, !.next_user_thread_id = 2]

\* Lines 75-90: the instance, the main thread's context and its id, the
\* thread id counter, the permanent roots storage.
BootAlloc ==
    /\ pc = "start"
    /\ trace' = trace \o <<Ev("MVM_calloc", "instance"),
                           Ev("MVM_tc_create", "main_thread"),
                           Ev("MVM_malloc", "permroots"),
                           Ev("MVM_malloc", "permroot_descriptions")>>
    /\ instance' = [FirstThreadIds(InstanceZero) EXCEPT
                                        !.num_permroots = 0,
                                        !.alloc_permroots = 16]
    /\ pc' = "boot_core"
    /\ UNCHANGED <<exit_status, env, threads, not_vm_vars>>

\* Lines 91-179, call by call.
BootCoreCalls ==
    <<Ev3("init_mutex", "mutex_permroots", "permanent roots"),
      Ev("MVM_fixed_size_create", "fsa"),
      Ev3("init_mutex", "mutex_repr_registry", "REPR registry"),
      Ev3("init_mutex", "mutex_hllconfigs", "hll configs"),
      Ev3("init_mutex", "mutex_dll_registry", "REPR registry"),
      Ev3("init_mutex", "mutex_ext_registry", "extension registry"),
      Ev3("init_mutex", "mutex_extop_registry", "extension op registry"),
      Ev3("init_mutex", "mutex_sc_weakhash", "sc weakhash"),
      Ev3("init_mutex", "mutex_loaded_compunits", "loaded compunits"),
      Ev3("init_mutex", "mutex_container_registry", "container registry"),
      Ev3("init_mutex", "mutex_object_ids", "object ID hash"),
      Ev("MVM_gc_allocate_gen2_default_set", "main_thread"),
      Ev3("init_mutex", "mutex_int_const_cache", "int constant cache"),
      Ev("MVM_calloc", "int_const_cache"),
      Ev("MVM_calloc", "int_to_str_cache"),
      Ev("MVM_unicode_init", "main_thread"),
      Ev("MVM_string_cclass_init", "main_thread"),
      Ev("MVM_nfg_init", "main_thread"),
      Ev("MVM_6model_bootstrap", "main_thread"),
      Ev("MVM_repr_alloc_init", "cur_usecapture"),
      Ev3("init_mutex", "mutex_event_loop_start", "event loop thread start"),
      Ev("allocate", "thread_obj"),
      Ev("MVM_platform_thread_id", "native_thread_id"),
      Ev("MVM_repr_alloc_init", "compiler_registry"),
      Ev3("init_mutex", "mutex_compiler_registry", "compiler registry"),
      Ev("MVM_repr_alloc_init", "hll_syms"),
      Ev3("init_mutex", "mutex_hll_syms", "hll syms"),
      Ev("MVM_calloc", "callsite_interns"),
      Ev3("init_mutex", "mutex_callsite_interns", "callsite interns"),
      Ev("MVM_callsite_initialize_common", "main_thread"),
      Ev3("init_mutex", "mutex_multi_cache_add", "multi-cache addition")>>

\* Line 156: the main Thread object takes the id of the main thread's
\* context, once lines 149-152 have allocated it.
MainThreadObject(i, calls) ==
    IF \E k \in 1..Len(calls) : calls[k] = Ev("allocate", "thread_obj")
    THEN [i EXCEPT !.thread_obj_thread_id = i.main_thread_id]
    ELSE i

\* for (i = 0; i < MVM_INTERN_ARITY_LIMIT; i++), line 373.
MVM_INTERN_ARITY_LIMIT == ArityLimit

\* A callsite and the list of an arity, by name.
CallsiteName(arity, n) == "callsite_" \o ToString(arity) \o "_" \o ToString(n)

ByArityName(arity) == "by_arity_" \o ToString(arity)

\* The callsites set up once and for all, here the one without arguments.
CommonCallsites == {"MVM_CALLSITE_ID_NULL_ARGS"}

MVM_callsite_is_common(callsite) == callsite \in CommonCallsites

\* Lines 171 and 176: the zeroed pool, then the common callsites interned
\* in it; by_arity[a + 1] is the list of arity a.
InternPool(i, calls) ==
    IF \E k \in 1..Len(calls) :
            calls[k] = Ev("MVM_callsite_initialize_common", "main_thread")
    THEN [i EXCEPT !.callsite_interns =
            [a \in 1..MVM_INTERN_ARITY_LIMIT |->
                IF a = 1 THEN <<"MVM_CALLSITE_ID_NULL_ARGS">> ELSE <<>>]]
    ELSE IF \E k \in 1..Len(calls) :
                calls[k] = Ev("MVM_calloc", "callsite_interns")
         THEN [i EXCEPT !.callsite_interns =
                    [a \in 1..MVM_INTERN_ARITY_LIMIT |-> <<>>]]
         ELSE i

BootCore ==
    /\ pc = "boot_core"
    /\ RunBlock(BootCoreCalls, "boot_level")
    /\ instance' = InternPool(MainThreadObject(instance, trace'), trace')
    /\ UNCHANGED <<env, threads, not_vm_vars>>

\* Line 183: instance->instrumentation_level = 1.
BootLevel ==
    /\ pc = "boot_level"
    /\ instance' = [instance EXCEPT !.instrumentation_level = 1]
    /\ pc' = "boot_spesh_mutex"
    /\ UNCHANGED <<exit_status, env, trace, threads, not_vm_vars>>

\* Line 187.
BootSpeshMutex ==
    /\ pc = "boot_spesh_mutex"
    /\ RunBlock(<<Ev3("init_mutex", "mutex_spesh_install",
                      "spesh installations")>>, "boot_spesh")
    /\ UNCHANGED <<env, instance, threads, not_vm_vars>>

\* x && strlen(x)
IsSet(x) == x # "NULL" /\ strlen(x) # 0

\* A sink is opened when its variable is set: the call and the field.
OpenCall(fn, sink, x, result) ==
    IF IsSet(x) THEN <<Ev3(fn, sink, result)>> ELSE <<>>

\* Lines 191-200 with the flags set whatever SPESH_DISABLE holds: a mutant
\* of SpeshFlags.
SpeshFlags_ignore_disable(spesh_disable, spesh_inline_disable, spesh_osr_disable) ==
    [spesh_enabled |-> IF spesh_disable = "NULL" \/ strlen(spesh_disable) = 0
                       THEN 1 ELSE 0,
     spesh_inline_enabled |->
        IF spesh_inline_disable = "NULL" \/ strlen(spesh_inline_disable) = 0
        THEN 1 ELSE 0,
     spesh_osr_enabled |->
        IF spesh_osr_disable = "NULL" \/ strlen(spesh_osr_disable) = 0
        THEN 1 ELSE 0]

\* Lines 191-200: the three specializer flags, zero unless set here.
SpeshFlags(spesh_disable, spesh_inline_disable, spesh_osr_disable) ==
    IF spesh_disable = "NULL" \/ strlen(spesh_disable) = 0
    THEN [spesh_enabled |-> 1,
          spesh_inline_enabled |->
            IF spesh_inline_disable = "NULL" \/ strlen(spesh_inline_disable) = 0
            THEN 1 ELSE 0,
          spesh_osr_enabled |->
            IF spesh_osr_disable = "NULL" \/ strlen(spesh_osr_disable) = 0
            THEN 1 ELSE 0]
    ELSE [spesh_enabled |-> 0, spesh_inline_enabled |-> 0,
          spesh_osr_enabled |-> 0]

\* Lines 188-213: the specializer's log and toggles.  The inline and OSR
\* toggles are read only when the specializer is enabled.
BootSpesh ==
    /\ pc = "boot_spesh"
    /\ \E spesh_log, spesh_disable, spesh_inline_disable, spesh_osr_disable,
          spesh_nodelay, spesh_limit \in EnvValues, result \in FopenResults :
        LET flags == SpeshFlags(spesh_disable, spesh_inline_disable,
                                spesh_osr_disable)
            inner == spesh_disable = "NULL" \/ strlen(spesh_disable) = 0
            e == [env EXCEPT
                    !["MVM_SPESH_LOG"] = spesh_log,
                    !["MVM_SPESH_DISABLE"] = spesh_disable,
                    !["MVM_SPESH_INLINE_DISABLE"] =
                        IF inner THEN spesh_inline_disable ELSE @,
                    !["MVM_SPESH_OSR_DISABLE"] =
                        IF inner THEN spesh_osr_disable ELSE @,
                    !["MVM_SPESH_NODELAY"] = spesh_nodelay,
                    !["MVM_SPESH_LIMIT"] = spesh_limit]
        IN  /\ WithinEnvBound(e)
            /\ env' = e
            /\ trace' = trace \o OpenCall("fopen_perhaps_with_pid", "spesh_log",
                                          spesh_log, result)
            /\ instance' = [instance EXCEPT
                    !.spesh_log_fh =
                        IF IsSet(spesh_log) THEN Fh("spesh_log", result) ELSE @,
                    !.spesh_enabled = flags.spesh_enabled,
                    !.spesh_inline_enabled = flags.spesh_inline_enabled,
                    !.spesh_osr_enabled = flags.spesh_osr_enabled,
                    !.spesh_nodelay = IF IsSet(spesh_nodelay) THEN 1 ELSE @,
                    !.spesh_limit =
                        IF IsSet(spesh_limit) THEN atoi(spesh_limit) ELSE @]
    /\ pc' = "boot_jit"
    /\ UNCHANGED <<exit_status, threads, not_vm_vars>>

\* Lines 215-230: the JIT's toggle, log and bytecode directory.  The map
\* file is opened with fopen, its name built from the directory.
BootJit ==
    /\ pc = "boot_jit"
    /\ \E jit_disable, jit_log, jit_bytecode_dir \in EnvValues,
          result \in FopenResults, map_result \in FopenResults :
        LET e == [env EXCEPT !["MVM_JIT_DISABLE"] = jit_disable,
                             !["MVM_JIT_LOG"] = jit_log,
                             !["MVM_JIT_BYTECODE_DIR"] = jit_bytecode_dir]
        IN  /\ WithinEnvBound(e)
            /\ env' = e
            /\ trace' = trace
                \o OpenCall("fopen_perhaps_with_pid", "jit_log", jit_log, result)
                \o (IF IsSet(jit_bytecode_dir)
                    THEN <<Ev("MVM_malloc", "bytecode_map_name"),
                           Ev3("fopen", "jit_bytecode_map", map_result),
                           Ev("MVM_free", "bytecode_map_name")>>
                    ELSE <<>>)
            /\ instance' = [instance EXCEPT
                    !.jit_enabled =
                        IF jit_disable = "NULL" \/ strlen(jit_disable) = 0
                        THEN 1 ELSE @,
                    !.jit_log_fh =
                        IF IsSet(jit_log) THEN Fh("jit_log", result) ELSE @,
                    !.jit_bytecode_map =
                        IF IsSet(jit_bytecode_dir)
                        THEN Fh("jit_bytecode_map", map_result) ELSE @,
                    !.jit_bytecode_dir =
                        IF IsSet(jit_bytecode_dir) THEN jit_bytecode_dir ELSE @,
                    !.jit_seq_nr = 0]
    /\ pc' = "boot_dynvar"
    /\ UNCHANGED <<exit_status, threads, not_vm_vars>>

\* Lines 236-237 on the stream fh: the start marker and its flush.
DynvarStartMarker(fh) ==
    <<Ev3("fprintf", fh, "+ x 0 0 0 0 0"), Ev("fflush", fh)>>

\* Lines 233-241: the dynamic-variable log.  The result of the open is not
\* tested before fprintf and fflush take it: on a null stream their
\* behaviour is undefined, the process crashes in fprintf or goes on.
BootDynvar ==
    /\ pc = "boot_dynvar"
    /\ \E dynvar_log \in EnvValues, result \in FopenResults :
        LET e == [env EXCEPT !["MVM_DYNVAR_LOG"] = dynvar_log]
            fh == Fh("dynvar_log", result)
        IN  /\ WithinEnvBound(e)
            /\ env' = e
            /\ IF IsSet(dynvar_log)
               THEN /\ instance' = [instance EXCEPT !.dynvar_log_fh = fh]
                    /\ \/ /\ trace' = trace
                                \o <<Ev3("fopen_perhaps_with_pid", "dynvar_log",
                                         result)>>
                                \o DynvarStartMarker(fh)
                          /\ pc' = "boot_debug"
                       \/ /\ fh = "NULL"
                          /\ trace' = trace
                                \o <<Ev3("fopen_perhaps_with_pid", "dynvar_log",
                                         result),
                                     Ev3("fprintf", fh, "+ x 0 0 0 0 0")>>
                          /\ pc' = "crashed"
               ELSE /\ instance' = [instance EXCEPT !.dynvar_log_fh = "NULL"]
                    /\ trace' = trace
                    /\ pc' = "boot_debug"
    /\ UNCHANGED <<exit_status, threads, not_vm_vars>>

\* Line 247 without the increment: a mutant of LevelAfterWriteLog.
LevelAfterWriteLog_same(level) == level

\* Line 247: instance->instrumentation_level++.
LevelAfterWriteLog(level) == level + 1

\* Lines 242-253: NFA debugging and cross-thread write logging, whose mutex
\* is initialised last.
BootDebug ==
    /\ pc = "boot_debug"
    /\ \E nfa_deb, write_log, include_locked \in EnvValues :
        LET on == write_log # "NULL"
            e == [env EXCEPT
                    !["MVM_NFA_DEB"] = nfa_deb,
                    !["MVM_CROSS_THREAD_WRITE_LOG"] = write_log,
                    !["MVM_CROSS_THREAD_WRITE_LOG_INCLUDE_LOCKED"] =
                        IF on THEN include_locked ELSE @]
        IN  /\ WithinEnvBound(e)
            /\ env' = e
            /\ instance' = [instance EXCEPT
                    !.nfa_debug_enabled = IF nfa_deb # "NULL" THEN 1 ELSE 0,
                    !.cross_thread_write_logging = IF on THEN 1 ELSE 0,
                    !.cross_thread_write_logging_include_locked =
                        IF on THEN (IF include_locked # "NULL" THEN 1 ELSE 0)
                        ELSE @,
                    !.instrumentation_level =
                        IF on THEN LevelAfterWriteLog(@) ELSE @]
            /\ RunBlock(IF on
                        THEN <<Ev3("init_mutex",
                                   "mutex_cross_thread_write_logging",
                                   "cross thread write logging output")>>
                        ELSE <<>>, "boot_coverage")
    /\ UNCHANGED <<threads, not_vm_vars>>

\* Line 258 without the increment: a mutant of LevelAfterCoverage.
LevelAfterCoverage_same(level) == level

\* Line 258: instance->instrumentation_level++.
LevelAfterCoverage(level) == level + 1

\* Lines 259-262 without the test of the length: a mutant of CoverageSink.
CoverageSink_always_file(coverage_log, result) == Fh("coverage_log", result)

\* Lines 259-262: the coverage log goes to the file the variable names, or
\* to stderr when the variable is empty.
CoverageSink(coverage_log, result) ==
    IF strlen(coverage_log) # 0 THEN Fh("coverage_log", result) ELSE "stderr"

\* Lines 255-266: coverage logging, to a file or to stderr.
BootCoverage ==
    /\ pc = "boot_coverage"
    /\ \E coverage_log \in EnvValues, result \in FopenResults :
        LET on == coverage_log # "NULL"
            file == on /\ strlen(coverage_log) # 0
            e == [env EXCEPT !["MVM_COVERAGE_LOG"] = coverage_log]
        IN  /\ WithinEnvBound(e)
            /\ env' = e
            /\ instance' = [instance EXCEPT
                    !.coverage_logging = IF on THEN 1 ELSE 0,
                    !.instrumentation_level =
                        IF on THEN LevelAfterCoverage(@) ELSE @,
                    !.coverage_log_fh =
                        IF on THEN CoverageSink(coverage_log, result) ELSE @]
            /\ trace' = trace
                \o (IF file
                    THEN <<Ev3("fopen_perhaps_with_pid", "coverage_log", result)>>
                    ELSE <<>>)
    /\ pc' = "boot_finish"
    /\ UNCHANGED <<exit_status, threads, not_vm_vars>>

\* Lines 278-290 with stdin registered before its handle exists: a mutant
\* of setup_std_handles.
setup_std_handles_register_first ==
    <<Ev3("MVM_gc_root_add_permanent_desc", "stdin_handle", "stdin handle"),
      Ev("MVM_file_get_stdstream", "stdin_handle"),
      Ev("MVM_file_get_stdstream", "stdout_handle"),
      Ev3("MVM_gc_root_add_permanent_desc", "stdout_handle", "stdout handle"),
      Ev("MVM_file_get_stdstream", "stderr_handle"),
      Ev3("MVM_gc_root_add_permanent_desc", "stderr_handle", "stderr handle")>>

\* static void setup_std_handles(MVMThreadContext *tc), lines 278-290.
setup_std_handles ==
    <<Ev("MVM_file_get_stdstream", "stdin_handle"),
      Ev3("MVM_gc_root_add_permanent_desc", "stdin_handle", "stdin handle"),
      Ev("MVM_file_get_stdstream", "stdout_handle"),
      Ev3("MVM_gc_root_add_permanent_desc", "stdout_handle", "stdout handle"),
      Ev("MVM_file_get_stdstream", "stderr_handle"),
      Ev3("MVM_gc_root_add_permanent_desc", "stderr_handle", "stderr handle")>>

\* Lines 268-272 with nursery allocation restored before the standard
\* handles are created: a mutant of BootFinishCalls.
BootFinishCalls_clear_first ==
    <<Ev("MVM_gc_allocate_gen2_default_clear", "main_thread")>>
        \o setup_std_handles

\* Lines 268-272: the standard handles, then back to nursery allocation.
BootFinishCalls ==
    setup_std_handles
        \o <<Ev("MVM_gc_allocate_gen2_default_clear", "main_thread")>>

\* Lines 268-274: the standard handles, back to nursery allocation, return.
BootFinish ==
    /\ pc = "boot_finish"
    /\ trace' = trace \o BootFinishCalls
    /\ pc' = "ready"
    /\ UNCHANGED <<exit_status, env, instance, threads, not_vm_vars>>

(***************************************************************************)
(* Threads.  The thread code is outside moar.c; what the instance manager  *)
(* relies on is modelled here: a new thread takes the next id of the       *)
(* counter line 84 starts at 2, and MVM_thread_join_foreground returns     *)
(* once every foreground thread has exited.                                *)
(***************************************************************************)
Running == {t \in DOMAIN threads : threads[t] = "running"}

\* The main thread is in the program or waits in a join; running threads
\* run the program too.
ProgramRuns == pc = "ready" \/ (pc \in {"exit_join", "destroy_join"} /\ Running # {})

\* A thread of the program starts another one.
SpawnThread ==
    /\ ProgramRuns
    /\ Cardinality(DOMAIN threads) < MaxThreads
    /\ LET id == instance.next_user_thread_id IN
        /\ threads' = [t \in DOMAIN threads \cup {id} |->
                            IF t = id THEN "running" ELSE threads[t]]
        /\ instance' = [instance EXCEPT !.next_user_thread_id = id + 1]
    /\ UNCHANGED <<pc, exit_status, env, trace, not_vm_vars>>

\* The ids threads can have: the main thread and those it spawns.
ThreadIds == 1..(MaxThreads + 1)

\* Thread t is not in an operation on a guarded resource.
Idle(t) == lock_want[t] = "none" /\ lock_held[t] = {}

\* A spawned thread runs to its end.
ThreadExit ==
    /\ \E t \in Running :
        /\ Idle(t)
        /\ threads' = [threads EXCEPT ![t] = "exited"]
    /\ UNCHANGED <<pc, exit_status, env, instance, trace, not_vm_vars>>

\* MVM_thread_join_foreground(instance->main_thread) can return.
JoinedForeground == Running = {}

(***************************************************************************)
(* The mutexes at run time.  The code that takes them is outside moar.c,   *)
(* which initialises one mutex per resource; an operation on a guarded     *)
(* resource takes the mutex of that resource for its duration and releases *)
(* it at once.                                                             *)
(***************************************************************************)

\* Lines 91-128 and 172: the guarded resources, each with the mutex
\* create_instance initialises for it.
GuardedBy ==
    [permroots |-> "mutex_permroots",
     repr_registry |-> "mutex_repr_registry",
     hllconfigs |-> "mutex_hllconfigs",
     dll_registry |-> "mutex_dll_registry",
     ext_registry |-> "mutex_ext_registry",
     extop_registry |-> "mutex_extop_registry",
     sc_weakhash |-> "mutex_sc_weakhash",
     loaded_compunits |-> "mutex_loaded_compunits",
     container_registry |-> "mutex_container_registry",
     object_ids |-> "mutex_object_ids",
     int_const_cache |-> "mutex_int_const_cache",
     callsite_interns |-> "mutex_callsite_interns"]

Resources == DOMAIN GuardedBy

InitLocks ==
    /\ lock_want = [t \in ThreadIds |-> "none"]
    /\ lock_held = [t \in ThreadIds |-> {}]

\* Thread t runs code of the program.
Active(t) == (t = 1 /\ pc = "ready") \/ t \in Running

\* A thread that takes a second mutex while it holds one: a mutant of
\* CanRequest.
CanRequest_nested(t) == TRUE

\* A thread starts an operation on a guarded resource only when it is in
\* none.
CanRequest(t) == Idle(t)

\* uv_mutex_init has run on m.
Initialised(m) ==
    \E i \in 1..Len(trace) : trace[i].op = "init_mutex" /\ trace[i].obj = m

\* A thread starts an operation on resource r.
LockRequest ==
    /\ \E t \in ThreadIds, r \in Resources :
        /\ Active(t)
        /\ CanRequest(t)
        /\ lock_want' = [lock_want EXCEPT ![t] = r]
    /\ UNCHANGED <<lock_held, vm_vars, not_lock_vars>>

\* uv_mutex_lock returns: the mutex of the resource is free and the thread
\* takes it.
LockAcquire ==
    /\ \E t \in ThreadIds :
        /\ Active(t)
        /\ lock_want[t] # "none"
        /\ LET m == GuardedBy[lock_want[t]]
           IN  /\ Initialised(m)
               /\ \A u \in ThreadIds : m \notin lock_held[u]
               /\ lock_held' = [lock_held EXCEPT ![t] = @ \cup {m}]
    /\ UNCHANGED <<lock_want, vm_vars, not_lock_vars>>

\* uv_mutex_unlock: the operation is over.
LockRelease ==
    /\ \E t \in ThreadIds :
        /\ Active(t)
        /\ lock_want[t] # "none"
        /\ GuardedBy[lock_want[t]] \in lock_held[t]
        /\ lock_held' = [lock_held EXCEPT ![t] = @ \ {GuardedBy[lock_want[t]]}]
        /\ lock_want' = [lock_want EXCEPT ![t] = "none"]
    /\ UNCHANGED <<vm_vars, not_lock_vars>>

\* The callsites of the pool that are not common.
Interned(i) ==
    {<<a, k>> \in (1..MVM_INTERN_ARITY_LIMIT) \X (1..(MaxInterned + 1)) :
        /\ k <= Len(i.callsite_interns[a])
        /\ ~MVM_callsite_is_common(i.callsite_interns[a][k])}

\* The program interns a callsite it has not met before, of an arity below
\* the limit: the callsite joins the list of its arity.
InternCallsite ==
    /\ ProgramRuns
    /\ Cardinality(Interned(instance)) < MaxInterned
    /\ \E a \in 1..MVM_INTERN_ARITY_LIMIT :
        LET list == instance.callsite_interns[a]
        IN  instance' = [instance EXCEPT !.callsite_interns[a] =
                            Append(list, CallsiteName(a - 1, Len(list) + 1))]
    /\ UNCHANGED <<pc, exit_status, env, trace, threads, not_vm_vars>>

\* The main thread calls MVM_vm_exit, line 350, and waits in the join of
\* line 352.
ExitCall ==
    /\ pc = "ready"
    /\ Idle(1)
    /\ pc' = "exit_join"
    /\ UNCHANGED <<exit_status, env, instance, trace, threads, not_vm_vars>>

\* if (fh) fclose(fh)
CloseIfOpen(fh) == IF fh # "NULL" THEN <<Ev("fclose", fh)>> ELSE <<>>

\* Lines 354-364 with the end marker written after the fclose: a mutant of
\* ExitCloses.
ExitCloses_marker_late(i) ==
    CloseIfOpen(i.spesh_log_fh)
        \o CloseIfOpen(i.jit_log_fh)
        \o CloseIfOpen(i.jit_bytecode_map)
        \o (IF i.dynvar_log_fh # "NULL"
            THEN <<Ev("fclose", i.dynvar_log_fh),
                   Ev3("fprintf", i.dynvar_log_fh, "- x 0 0 0 0")>>
            ELSE <<>>)

\* Lines 354-364 of MVM_vm_exit: the sinks it closes, the end marker of the
\* dynamic-variable log first.
ExitCloses(i) ==
    CloseIfOpen(i.spesh_log_fh)
        \o CloseIfOpen(i.jit_log_fh)
        \o CloseIfOpen(i.jit_bytecode_map)
        \o (IF i.dynvar_log_fh # "NULL"
            THEN <<Ev3("fprintf", i.dynvar_log_fh, "- x 0 0 0 0"),
                   Ev("fclose", i.dynvar_log_fh)>>
            ELSE <<>>)

\* void MVM_vm_exit(MVMInstance *instance), lines 350-368, from the return
\* of the join on.
MVM_vm_exit ==
    /\ pc = "exit_join"
    /\ JoinedForeground
    /\ trace' = trace \o <<Ev("MVM_thread_join_foreground", "main_thread")>>
                      \o ExitCloses(instance)
                      \o <<Ev("exit", "0")>>
    /\ pc' = "exited"
    /\ exit_status' = 0
    /\ UNCHANGED <<env, instance, threads, not_vm_vars>>

\* The main thread calls MVM_vm_destroy_instance, line 399, and waits in
\* the join of line 401.
DestroyCall ==
    /\ pc = "ready"
    /\ Idle(1)
    /\ pc' = "destroy_join"
    /\ UNCHANGED <<exit_status, env, instance, trace, threads, not_vm_vars>>

\* Lines 380-388 on the list callsites from its position j on: a callsite
\* is destroyed unless it is common.
RECURSIVE DestroyCallsites(_, _)
DestroyCallsites(callsites, j) ==
    IF j > Len(callsites) THEN <<>>
    ELSE (IF MVM_callsite_is_common(callsites[j]) THEN <<>>
          ELSE <<Ev("MVM_callsite_destroy", callsites[j])>>)
            \o DestroyCallsites(callsites, j + 1)

\* Lines 380-388 without the test of line 383: a mutant of
\* CleanupArity.
CleanupArity_all(interns, i) ==
    IF Len(interns[i + 1]) # 0
    THEN [k \in 1..Len(interns[i + 1]) |->
                Ev("MVM_callsite_destroy", interns[i + 1][k])]
            \o <<Ev("MVM_free", ByArityName(i))>>
    ELSE <<>>

\* Lines 374-391, one turn of the loop: the callsites of arity i, then
\* their list, when there are any.
CleanupArity(interns, i) ==
    IF Len(interns[i + 1]) # 0
    THEN DestroyCallsites(interns[i + 1], 1)
            \o <<Ev("MVM_free", ByArityName(i))>>
    ELSE <<>>

\* The loop of line 373 from arity i on.
RECURSIVE CleanupFrom(_, _)
CleanupFrom(interns, i) ==
    IF i >= MVM_INTERN_ARITY_LIMIT THEN <<>>
    ELSE CleanupArity(interns, i) \o CleanupFrom(interns, i + 1)

\* static void cleanup_callsite_interns(MVMInstance *instance), lines
\* 370-394.
cleanup_callsite_interns(i) ==
    CleanupFrom(i.callsite_interns, 0)
        \o <<Ev("MVM_free", "callsite_interns")>>

\* Lines 407-461: the registries, the permanent roots, the callsite
\* interns, the Unicode database.
DestroyRegistries(i) ==
    <<Ev("uv_mutex_destroy", "mutex_repr_registry"),
      Ev("MVM_HASH_DESTROY", "repr_hash"),
      Ev("MVM_free", "repr_list"),
      Ev("uv_mutex_destroy", "mutex_permroots"),
      Ev("MVM_free", "permroots"),
      Ev("MVM_free", "permroot_descriptions"),
      Ev("uv_mutex_destroy", "mutex_hllconfigs"),
      Ev("MVM_HASH_DESTROY", "compiler_hll_configs"),
      Ev("MVM_HASH_DESTROY", "compilee_hll_configs"),
      Ev("uv_mutex_destroy", "mutex_dll_registry"),
      Ev("MVM_HASH_DESTROY", "dll_registry"),
      Ev("uv_mutex_destroy", "mutex_ext_registry"),
      Ev("MVM_HASH_DESTROY", "ext_registry"),
      Ev("uv_mutex_destroy", "mutex_extop_registry"),
      Ev("MVM_HASH_DESTROY", "extop_registry"),
      Ev("uv_mutex_destroy", "mutex_sc_weakhash"),
      Ev("MVM_HASH_DESTROY", "sc_weakhash"),
      Ev("MVM_free", "all_scs"),
      Ev("uv_mutex_destroy", "mutex_loaded_compunits"),
      Ev("MVM_HASH_DESTROY", "loaded_compunits"),
      Ev("uv_mutex_destroy", "mutex_container_registry"),
      Ev("MVM_HASH_DESTROY", "container_registry"),
      Ev("uv_mutex_destroy", "mutex_compiler_registry"),
      Ev("uv_mutex_destroy", "mutex_hll_syms"),
      Ev("uv_mutex_destroy", "mutex_multi_cache_add"),
      Ev("uv_mutex_destroy", "mutex_callsite_interns")>>
        \o cleanup_callsite_interns(i)
        \o <<Ev("MVM_unicode_release", "main_thread")>>

\* Lines 463-470: the spesh install mutex and the sinks that are closed.
DestroyCloses(i) ==
    <<Ev("uv_mutex_destroy", "mutex_spesh_install")>>
        \o CloseIfOpen(i.spesh_log_fh)
        \o CloseIfOpen(i.jit_log_fh)
        \o CloseIfOpen(i.dynvar_log_fh)

\* Line 473.
DestroyWriteLogMutex ==
    <<Ev("uv_mutex_destroy", "mutex_cross_thread_write_logging")>>

\* Lines 475-494 with the main thread's context destroyed first: a mutant
\* of DestroyRest.
DestroyRest_tc_early ==
    <<Ev("MVM_tc_destroy", "main_thread"),
      Ev("uv_mutex_destroy", "nfg->update_mutex"),
      Ev("MVM_nfg_destroy", "main_thread"),
      Ev("MVM_fixed_size_destroy", "fsa"),
      Ev("uv_mutex_destroy", "mutex_int_const_cache"),
      Ev("MVM_free", "int_const_cache"),
      Ev("MVM_free", "int_to_str_cache"),
      Ev("uv_mutex_destroy", "mutex_event_loop_start"),
      Ev("MVM_free", "instance")>>

\* Lines 475-494: NFG, the fixed size allocator, the constant cache, the
\* event loop mutex, the main thread's context, the instance.
DestroyRest ==
    <<Ev("uv_mutex_destroy", "nfg->update_mutex"),
      Ev("MVM_nfg_destroy", "main_thread"),
      Ev("MVM_fixed_size_destroy", "fsa"),
      Ev("uv_mutex_destroy", "mutex_int_const_cache"),
      Ev("MVM_free", "int_const_cache"),
      Ev("MVM_free", "int_to_str_cache"),
      Ev("uv_mutex_destroy", "mutex_event_loop_start"),
      Ev("MVM_tc_destroy", "main_thread"),
      Ev("MVM_free", "instance")>>

\* Lines 400-405 with the global destruction moved behind the registries: a
\* mutant of DestroyCalls.
DestroyCalls_gc_late(i) ==
    <<Ev("MVM_thread_join_foreground", "main_thread")>>
        \o DestroyRegistries(i)
        \o <<Ev("MVM_gc_global_destruction", "main_thread")>>
        \o DestroyCloses(i)

\* Lines 400-470: the join, the GC's global destruction, then the cleanup
\* up to the closing of the logs.
DestroyCalls(i) ==
    <<Ev("MVM_thread_join_foreground", "main_thread"),
      Ev("MVM_gc_global_destruction", "main_thread")>>
        \o DestroyRegistries(i)
        \o DestroyCloses(i)

\* void MVM_vm_destroy_instance(MVMInstance *instance), lines 399-495, from
\* the return of the join on.  Line 473 destroys the write-log mutex
\* whether or not line 248 initialised it; destroying a mutex that was
\* never initialised is undefined: uv_mutex_destroy aborts or goes on.
MVM_vm_destroy_instance ==
    /\ pc = "destroy_join"
    /\ JoinedForeground
    /\ \/ /\ trace' = trace \o DestroyCalls(instance) \o DestroyWriteLogMutex
                            \o DestroyRest
          /\ pc' = "destroyed"
       \/ /\ instance.cross_thread_write_logging = 0
          /\ trace' = trace \o DestroyCalls(instance) \o DestroyWriteLogMutex
                            \o <<Ev("abort", "uv_mutex_destroy")>>
          /\ pc' = "crashed"
    /\ UNCHANGED <<exit_status, env, instance, threads, not_vm_vars>>

Next ==
    \/ BootAlloc
    \/ BootCore
    \/ BootLevel
    \/ BootSpeshMutex
    \/ BootSpesh
    \/ BootJit
    \/ BootDynvar
    \/ BootDebug
    \/ BootCoverage
    \/ BootFinish
    \/ SpawnThread
    \/ ThreadExit
    \/ ExitCall
    \/ MVM_vm_exit
    \/ DestroyCall
    \/ MVM_vm_destroy_instance

\* The main thread alone: bootstrap, a program that interns callsites, the
\* destruction of the instance.
NextInterns ==
    \/ BootAlloc
    \/ BootCore
    \/ BootLevel
    \/ BootSpeshMutex
    \/ BootSpesh
    \/ BootJit
    \/ BootDynvar
    \/ BootDebug
    \/ BootCoverage
    \/ BootFinish
    \/ InternCallsite
    \/ DestroyCall
    \/ MVM_vm_destroy_instance

(***************************************************************************)
(* A thread's specialization log, src/src/spesh/log.h.  The header gives   *)
(* the default capacity and declares MVM_spesh_log_create_for_thread; the  *)
(* appends and the handoff to a specialization worker are outside src/.    *)
(***************************************************************************)

\* #define MVM_SPESH_LOG_DEFAULT_ENTRIES 4096 with one entry less: a mutant
\* of MVM_SPESH_LOG_DEFAULT_ENTRIES.
MVM_SPESH_LOG_DEFAULT_ENTRIES_short == 4096 - 1

\* The default number of entries collected into a thread's spesh log buffer
\* before it is sent to a specialization worker, log.h line 13.
MVM_SPESH_LOG_DEFAULT_ENTRIES == 4096

\* The capacities a log is created with.
LogLimits == {MVM_SPESH_LOG_DEFAULT_ENTRIES, ConfiguredEntries}

InitLog ==
    /\ sl_policy \in {"drop", "handoff"}
    /\ sl_log = 0
    /\ sl_used = 0
    /\ sl_limit = 0
    /\ sl_last = "none"
    /\ sl_sent = <<>>

\* The log the thread had before takes no part in the other specifications.
InitNoLog == InitLog /\ sl_policy = "drop"

\* void MVM_spesh_log_create_for_thread(MVMThreadContext *tc), log.h line
\* 15: the thread gets its first buffer, of the configured capacity.
MVM_spesh_log_create_for_thread ==
    /\ sl_log = 0
    /\ sl_sent = <<>>
    /\ \E limit \in LogLimits : sl_limit' = limit
    /\ sl_log' = 1
    /\ sl_used' = 0
    /\ UNCHANGED <<sl_policy, sl_last, sl_sent, not_sl_vars>>

\* The buffer of the thread, as handed to a worker.
SentLog(why) ==
    [id |-> sl_log, used |-> sl_used, limit |-> sl_limit, why |-> why]

\* An append to a buffer that has room.
LogAppend ==
    /\ sl_log # 0
    /\ sl_used < sl_limit
    /\ sl_used' = sl_used + 1
    /\ sl_last' = "stored"
    /\ UNCHANGED <<sl_policy, sl_log, sl_limit, sl_sent, not_sl_vars>>

\* The handoff of the full buffer: it goes to the worker, the thread goes
\* on with a fresh one and does not wait.
LogHandoff ==
    /\ sl_log # 0
    /\ sl_used = sl_limit
    /\ Len(sl_sent) < MaxLogs
    /\ sl_sent' = Append(sl_sent, SentLog("full"))
    /\ sl_log' = sl_log + 1
    /\ sl_used' = 0
    /\ UNCHANGED <<sl_policy, sl_limit, sl_last, not_sl_vars>>

\* An append to a full buffer that has not been handed off: the entry is
\* dropped, or the append hands the buffer off at once and the entry is the
\* first of the fresh buffer.
LogAppendFull ==
    /\ sl_log # 0
    /\ sl_used = sl_limit
    /\ IF sl_policy = "drop"
       THEN /\ sl_last' = "dropped"
            /\ UNCHANGED <<sl_log, sl_used, sl_sent>>
       ELSE /\ Len(sl_sent) < MaxLogs
            /\ sl_sent' = Append(sl_sent, SentLog("full"))
            /\ sl_log' = sl_log + 1
            /\ sl_used' = 1
            /\ sl_last' = "handoff"
    /\ UNCHANGED <<sl_policy, sl_limit, not_sl_vars>>

\* The thread ends: its buffer goes to the worker as it is.
LogThreadExit ==
    /\ sl_log # 0
    /\ Len(sl_sent) < MaxLogs
    /\ sl_sent' = Append(sl_sent, SentLog("exit"))
    /\ sl_log' = 0
    /\ sl_used' = 0
    /\ UNCHANGED <<sl_policy, sl_limit, sl_last, not_sl_vars>>

NextLog ==
    \/ MVM_spesh_log_create_for_thread
    \/ LogAppend
    \/ LogHandoff
    \/ LogAppendFull
    \/ LogThreadExit

\* Bootstrap in an empty environment, then the threads of a program that
\* work on the guarded resources, up to a fast exit.
NextLocks ==
    \/ BootAlloc
    \/ BootCore
    \/ BootLevel
    \/ BootSpeshMutex
    \/ BootSpesh
    \/ BootJit
    \/ BootDynvar
    \/ BootDebug
    \/ BootCoverage
    \/ BootFinish
    \/ SpawnThread
    \/ ThreadExit
    \/ LockRequest
    \/ LockAcquire
    \/ LockRelease
    \/ ExitCall
    \/ MVM_vm_exit

(***************************************************************************)
(* MVM_vm_dump_file, lines 322-344.  MVM_cu_map_from_file and              *)
(* MVM_bytecode_dump hand the loop a NUL-terminated string; the loop       *)
(* passes it to write(1, ...) piece by piece.                              *)
(*                                                                         *)
(* A value of type int or size_t is held as its two's complement           *)
(* representative: the size_t SIZE_MAX, which is what the ssize_t -1 of a  *)
(* failed write becomes in `size_t written', is -1.  Sums of               *)
(* representatives are the sums modulo 2^width as long as they stay far    *)
(* from the half range, which the bounds see to.  Comparisons of size_t    *)
(* values are unsigned.                                                    *)
(***************************************************************************)
DumpBytes == {"x", "y"}

Dumps == UNION {[1..n -> DumpBytes] : n \in 0..MaxDumpLen}

\* a < b for two size_t values: every value with the top bit set is above
\* every value without it.
ULt(a, b) ==
    IF (a >= 0) = (b >= 0) THEN a < b ELSE a >= 0

\* What write(1, buf, count) can return for count > 0: -1 for a failure
\* (EAGAIN on a non-blocking stdout, line 329-331), or the number of bytes
\* it took, which can be short of count.
WriteResults(count) == {-1} \union 0..count

\* Line 338, the initialiser of `size_t written': the conversion of the
\* ssize_t result to size_t keeps the representative, so that -1 is SIZE_MAX.
WrittenOf(result) == result

\* Lines 339-340: if (written > 0) position += written.  The comparison is
\* unsigned; the sum is computed in size_t and converted back to int, which
\* keeps the low bits.
PositionAfter(position, written) ==
    IF ULt(0, written) THEN position + written ELSE position

InitDump ==
    /\ df_pc = "idle"
    /\ df_dump = <<>>
    /\ df_dumplen = 0
    /\ df_position = 0
    /\ df_written = 0
    /\ df_out = <<>>
    /\ df_fails = 0

\* Lines 324-327: the dump is made, measured, and position starts at 0.
DumpStart ==
    /\ df_pc = "idle"
    /\ \E dump \in Dumps :
        /\ df_dump' = dump
        /\ df_dumplen' = Len(dump)    \* strlen(dump), line 326
    /\ df_position' = 0
    /\ df_pc' = "loop"
    /\ UNCHANGED <<df_written, df_out, df_fails, not_df_vars>>

\* Lines 337-341, one turn of the loop: position < dumplen compares an int
\* with a size_t, hence as size_t values.
DumpWrite ==
    /\ df_pc = "loop"
    /\ ULt(df_position, df_dumplen)
    /\ \E result \in WriteResults(df_dumplen - df_position) :
        /\ result = -1 => df_fails < MaxWriteFailures
        /\ df_fails' = IF result = -1 THEN df_fails + 1 ELSE df_fails
        /\ df_out' = IF result > 0
                     THEN df_out \o SubSeq(df_dump, df_position + 1,
                                           df_position + result)
                     ELSE df_out
        /\ df_written' = WrittenOf(result)
        /\ df_position' = PositionAfter(df_position, df_written')
    /\ UNCHANGED <<df_pc, df_dump, df_dumplen, not_df_vars>>

\* Lines 337 and 343: the loop condition is false, the dump is freed and the
\* function returns.
DumpReturn ==
    /\ df_pc = "loop"
    /\ ~ULt(df_position, df_dumplen)
    /\ df_pc' = "done"
    /\ UNCHANGED <<df_dump, df_dumplen, df_position, df_written, df_out,
                   df_fails, not_df_vars>>

NextDump == DumpStart \/ DumpWrite \/ DumpReturn

InitPath == InitFp(Pids) /\ InitLp /\ InitVm /\ InitLocks /\ InitNoLog /\ InitDump

SpecPath == InitPath /\ [][NextPath]_vars

InitLib == InitFp({1}) /\ InitLp /\ InitVm /\ InitLocks /\ InitNoLog /\ InitDump

SpecLib == InitLib /\ [][NextLib]_vars

Init == InitFp({1}) /\ InitLp /\ InitVm /\ InitLocks /\ InitNoLog /\ InitDump

Spec == Init /\ [][Next]_vars

SpecInterns == Init /\ [][NextInterns]_vars

InitEmptyEnv ==
    InitFp({1}) /\ InitLp /\ InitVmIn([n \in EnvNames |-> "NULL"]) /\ InitLocks
        /\ InitNoLog /\ InitDump

InitSpeshLog == InitFp({1}) /\ InitLp /\ InitVm /\ InitLocks /\ InitLog /\ InitDump

SpecLog == InitSpeshLog /\ [][NextLog]_vars

SpecLocks == InitEmptyEnv /\ [][NextLocks]_vars

SpecDump == Init /\ [][NextDump]_vars

(***************************************************************************)
(* Claims about fopen_perhaps_with_pid, checked under SpecPath.            *)
(***************************************************************************)

\* The number of consecutive '%' that end at position i.
RECURSIVE PercentRun(_, _)
PercentRun(path, i) ==
    IF i < 1 \/ path[i] # "%" THEN 0 ELSE 1 + PercentRun(path, i - 1)

\* The positions of the '%' that start a directive: a '%' that is not half of
\* a "%%" escape, which is the last '%' of a run of odd length.
DirectivePositions(path) ==
    {i \in 1..Len(path) :
        /\ path[i] = "%"
        /\ i = Len(path) \/ path[i + 1] # "%"
        /\ PercentRun(path, i) % 2 = 1}

\* The positions of the "%d" directives.
PidDirectives(path) ==
    {i \in DirectivePositions(path) : i < Len(path) /\ path[i + 1] = "d"}

\* s with each "%%" escape replaced by one '%'; s holds no directive.
RECURSIVE Collapse(_)
Collapse(s) ==
    IF Len(s) < 2 THEN s
    ELSE IF s[1] = "%" /\ s[2] = "%"
         THEN <<"%">> \o Collapse(SubSeq(s, 3, Len(s)))
         ELSE <<s[1]>> \o Collapse(Tail(s))

FpDone == fp_pc \in {"returned", "crashed"}

\* C1, as stated, on the paths whose only directive is the one "%d": the
\* path is opened under the path with that "%d" replaced by the pid, and the
\* name holds no literal "%d".
C1_Original ==
    (FpDone /\ Cardinality(DirectivePositions(fp_path)) = 1
            /\ Cardinality(PidDirectives(fp_path)) = 1) =>
        LET i == CHOOSE j \in PidDirectives(fp_path) : TRUE IN
        /\ fp_pc = "returned"
        /\ fp_file = SubSeq(fp_path, 1, i - 1) \o Digits(fp_pid)
                        \o SubSeq(fp_path, i + 2, Len(fp_path))
        /\ ~strstr(fp_file, <<"%", "d">>)

\* C1, amended: a path whose only directive is one "%d" is opened under the
\* path with that "%d" replaced by the decimal pid and each "%%" escape
\* replaced by one '%'; when the path holds no "%%" escape the name is the
\* path with the "%d" replaced and holds no literal "%d".
C1_PidSubstituted ==
    (FpDone /\ Cardinality(DirectivePositions(fp_path)) = 1
            /\ Cardinality(PidDirectives(fp_path)) = 1) =>
        LET i == CHOOSE j \in PidDirectives(fp_path) : TRUE IN
        /\ fp_pc = "returned"
        /\ fp_formatted
        /\ fp_file = Collapse(SubSeq(fp_path, 1, i - 1)) \o Digits(fp_pid)
                        \o Collapse(SubSeq(fp_path, i + 2, Len(fp_path)))
        /\ ~strstr(fp_path, <<"%", "%">>) =>
              /\ fp_file = SubSeq(fp_path, 1, i - 1) \o Digits(fp_pid)
                              \o SubSeq(fp_path, i + 2, Len(fp_path))
              /\ ~strstr(fp_file, <<"%", "d">>)

\* A path with one "%d" and a "%%" escape has been opened under a name that
\* holds a two-digit pid.
C1_Witness ==
    /\ fp_pc = "returned"
    /\ Cardinality(DirectivePositions(fp_path)) = 1
    /\ Cardinality(PidDirectives(fp_path)) = 1
    /\ strstr(fp_path, <<"%", "%">>)
    /\ fp_pid >= 10
    /\ strstr(fp_file, Digits(fp_pid))

\* C2: a path with no directive (its only '%' are "%%" escapes, or it has
\* none) is opened at exactly the literal path.
C2_LiteralWhenNoDirective ==
    (FpDone /\ DirectivePositions(fp_path) = {}) =>
        /\ fp_pc = "returned"
        /\ fp_file = fp_path

\* C3: a path with two or more directives is opened unmodified, without
\* being handed to snprintf as a format, and the call returns.
C3_LiteralWhenManyDirectives ==
    (FpDone /\ Cardinality(DirectivePositions(fp_path)) >= 2) =>
        /\ fp_pc = "returned"
        /\ ~fp_formatted
        /\ fp_file = fp_path

\* A path with two directives, one of them "%d", has been opened.
C3_Witness ==
    /\ fp_pc = "returned"
    /\ Cardinality(DirectivePositions(fp_path)) >= 2
    /\ PidDirectives(fp_path) # {}
    /\ fp_file = fp_path

(***************************************************************************)
(* Claims about the setters, checked under SpecLib.                        *)
(***************************************************************************)

\* C4: a call of MVM_vm_set_lib_path with a count above the capacity ends
\* the process with a non-zero status and changes no slot of the list,
\* whatever the list held.
C4_OverflowPanics ==
    [][lp_count' > MAX_COUNT =>
            /\ lp_proc' = "exited"
            /\ lp_status' # 0
            /\ lib_path' = lib_path]_vars

\* The process has ended on a count above the capacity, with a list that
\* held paths from an earlier call.
C4_Witness ==
    /\ lp_proc = "exited"
    /\ lp_count > MAX_COUNT
    /\ lib_path[1] # "NULL"
    /\ lib_path[MAX_COUNT] = "NULL"

\* The list a call with these arguments is to leave: the paths, in order, in
\* the first count slots, NULL in every other slot.
ListOf(count, arr) ==
    [i \in 1..MAX_COUNT |-> IF i <= count THEN arr[i] ELSE "NULL"]

\* The last call of MVM_vm_set_lib_path repeated the call before it: it found
\* the list its own arguments describe.
RepeatedCall ==
    /\ lp_count \in 1..MAX_COUNT
    /\ lp_prev = ListOf(lp_count, lp_arg)

\* C22: after any sequence of MVM_vm_set_lib_path calls with counts within
\* the capacity, the list holds the paths of the last call, in order, in its
\* first count slots and NULL in every other slot, so that nothing of an
\* earlier call is left; and a call that repeats the one before it leaves
\* the list as it found it.
C22_LastCallWins ==
    /\ [](lp_count <= MAX_COUNT =>
            /\ Len(lp_arg) = lp_count
            /\ lib_path = ListOf(lp_count, lp_arg))
    /\ [](RepeatedCall => lib_path = lp_prev)

\* A call with fewer paths has followed a call that filled the list: the
\* last slot held a path when the call was made and the paths of the call
\* differ from what the first slot held.
C22_Witness ==
    /\ lp_proc = "running"
    /\ lp_count \in 1..(MAX_COUNT - 1)
    /\ lp_prev[MAX_COUNT] # "NULL"
    /\ lp_prev[1] # lp_arg[1]
    /\ lib_path[MAX_COUNT] = "NULL"

(***************************************************************************)
(* Claims about the life cycle, checked under Spec.                        *)
(***************************************************************************)

\* The positions of trace that hold a call of op.
CallsOf(op) == {i \in 1..Len(trace) : trace[i].op = op}

\* The number of calls of op on obj.
Count(op, obj) ==
    Cardinality({i \in CallsOf(op) : trace[i].obj = obj})

\* C5: the instance create_instance returns has an instrumentation level of
\* 1 plus the number of enabled diagnostics among cross-thread write
\* logging and coverage logging, each enabled exactly when its variable is
\* in the environment, whatever the other toggles hold; and no step ever
\* lowers the level.
C5_InstrumentationLevel ==
    /\ [](pc = "ready" =>
            /\ instance.cross_thread_write_logging =
                    (IF env["MVM_CROSS_THREAD_WRITE_LOG"] # "NULL" THEN 1 ELSE 0)
            /\ instance.coverage_logging =
                    (IF env["MVM_COVERAGE_LOG"] # "NULL" THEN 1 ELSE 0)
            /\ instance.instrumentation_level =
                    1 + instance.cross_thread_write_logging
                      + instance.coverage_logging)
    /\ [][instance'.instrumentation_level >= instance.instrumentation_level]_vars

\* Bootstrap has returned with both diagnostics and NFA debugging enabled,
\* at level 3.
C5_Witness ==
    /\ pc = "ready"
    /\ env["MVM_CROSS_THREAD_WRITE_LOG"] # "NULL"
    /\ env["MVM_COVERAGE_LOG"] # "NULL"
    /\ env["MVM_NFA_DEB"] # "NULL"
    /\ instance.instrumentation_level = 3

\* A variable holds a non-empty value.
NonEmpty(v) == v \notin {"unread", "NULL", ""}

\* C6: after bootstrap, a non-empty SPESH_DISABLE leaves the specializer,
\* inlining and OSR disabled; otherwise the specializer is enabled,
\* inlining exactly when SPESH_INLINE_DISABLE is unset or empty, and OSR
\* exactly when SPESH_OSR_DISABLE is unset or empty.
C6_SpeshToggles ==
    pc = "ready" =>
        IF NonEmpty(env["MVM_SPESH_DISABLE"])
        THEN /\ instance.spesh_enabled = 0
             /\ instance.spesh_inline_enabled = 0
             /\ instance.spesh_osr_enabled = 0
        ELSE /\ instance.spesh_enabled = 1
             /\ instance.spesh_inline_enabled = 1
                    <=> ~NonEmpty(env["MVM_SPESH_INLINE_DISABLE"])
             /\ instance.spesh_osr_enabled = 1
                    <=> ~NonEmpty(env["MVM_SPESH_OSR_DISABLE"])

\* The scenario of the spec: SPESH_DISABLE unset, SPESH_INLINE_DISABLE="1":
\* specializer on, inlining off, OSR on.
C6_Witness ==
    /\ pc = "ready"
    /\ env["MVM_SPESH_DISABLE"] = "NULL"
    /\ env["MVM_SPESH_INLINE_DISABLE"] = "1"
    /\ env["MVM_SPESH_OSR_DISABLE"] = "NULL"
    /\ instance.spesh_enabled = 1
    /\ instance.spesh_inline_enabled = 0
    /\ instance.spesh_osr_enabled = 1

\* A call that takes part of the instance down.
IsTeardownCall(e) ==
    \/ e.op \in {"MVM_gc_global_destruction", "uv_mutex_destroy",
                 "MVM_HASH_DESTROY", "MVM_callsite_destroy",
                 "MVM_unicode_release", "MVM_nfg_destroy",
                 "MVM_fixed_size_destroy", "MVM_tc_destroy"}
    \/ e.op = "MVM_free" /\ e.obj # "bytecode_map_name"

\* C7: while a foreground thread still runs, no teardown step has been
\* taken (no global destruction, no mutex destroyed, nothing freed); every
\* teardown step follows the return of the join; and the GC's global
\* destruction precedes every other teardown step.
C7_JoinBeforeTeardown ==
    /\ Running # {} => \A i \in 1..Len(trace) : ~IsTeardownCall(trace[i])
    /\ \A i \in 1..Len(trace) :
        IsTeardownCall(trace[i]) =>
            /\ \E j \in 1..(i - 1) :
                    trace[j].op = "MVM_thread_join_foreground"
            /\ trace[i].op # "MVM_gc_global_destruction" =>
                    \E j \in 1..(i - 1) :
                        trace[j].op = "MVM_gc_global_destruction"

\* An instance has been destroyed after the threads it spawned were joined.
C7_Witness ==
    /\ pc = "destroyed"
    /\ DOMAIN threads # {}
    /\ Count("MVM_gc_global_destruction", "main_thread") = 1
    /\ Count("uv_mutex_destroy", "mutex_repr_registry") = 1

\* The mutexes of the instance: those init_mutex or uv_mutex_destroy were
\* called on, and the NFG update mutex, which MVM_nfg_init sets up.
Mutexes ==
    {trace[i].obj : i \in CallsOf("init_mutex") \cup CallsOf("uv_mutex_destroy")}

MutexInits(m) ==
    IF m = "nfg->update_mutex" THEN Count("MVM_nfg_init", "main_thread")
    ELSE Count("init_mutex", m)

\* C8: once destroy_instance has returned, every mutex bootstrap initialised
\* has been destroyed exactly once, and no mutex has been destroyed that
\* was never initialised.
C8_MutexesBalanced ==
    pc = "destroyed" =>
        \A m \in Mutexes : Count("uv_mutex_destroy", m) = MutexInits(m)

Sinks == {"spesh_log", "jit_log", "jit_bytecode_map", "dynvar_log", "coverage_log"}

\* Bootstrap opened the file of the sink.
Opened(sink) ==
    \E i \in CallsOf("fopen") \cup CallsOf("fopen_perhaps_with_pid") :
        trace[i].obj = sink /\ trace[i].arg = "FILE"

\* C9: once destroy_instance has returned, every sink bootstrap opened has
\* been closed exactly once, before the instance was freed.
C9_SinksClosed ==
    pc = "destroyed" =>
        \A sink \in Sinks :
            Opened(sink) =>
                /\ Count("fclose", sink) = 1
                /\ \A i \in CallsOf("fclose"), j \in CallsOf("MVM_free") :
                        (trace[i].obj = sink /\ trace[j].obj = "instance") => i < j

\* C10: a log file that fails to open is no error: bootstrap does not crash
\* and no write, flush or close is ever issued on a null sink.
C10_NullSinkHarmless ==
    /\ \A i \in CallsOf("fprintf") \cup CallsOf("fflush") \cup CallsOf("fclose") :
            trace[i].obj # "NULL"
    /\ pc = "crashed" => CallsOf("MVM_thread_join_foreground") # {}

\* C11: the main thread's context carries id 1 from its creation on, and so
\* does the main Thread object; the counter is 2 when bootstrap returns; a
\* thread spawned afterwards, while others run or not, takes an id of at
\* least 2 that is above every id handed out before, below the counter, and
\* no id is ever given up or handed out again.
C11_ThreadIds ==
    /\ [](pc # "start" => instance.main_thread_id = 1)
    /\ [](Count("allocate", "thread_obj") > 0 =>
            instance.thread_obj_thread_id = 1)
    /\ [][(pc # "ready" /\ pc' = "ready") =>
            instance'.next_user_thread_id = 2]_vars
    /\ [][/\ DOMAIN threads \subseteq DOMAIN threads'
          /\ \A t \in DOMAIN threads' \ DOMAIN threads :
                /\ t >= 2
                /\ t # instance'.main_thread_id
                /\ \A u \in DOMAIN threads : u < t
                /\ t < instance'.next_user_thread_id]_vars

\* Two threads were spawned and both still run while the main thread waits
\* in a join.
C11_Witness ==
    /\ pc = "exit_join"
    /\ instance.thread_obj_thread_id = 1
    /\ DOMAIN threads = {2, 3}
    /\ Running = {2, 3}

\* Every init_mutex of create_instance: the mutex and the name it is given.
InitMutexSites ==
    {BootCoreCalls[k] : k \in {i \in 1..Len(BootCoreCalls) :
                                    BootCoreCalls[i].op = "init_mutex"}}
        \cup {Ev3("init_mutex", "mutex_spesh_install", "spesh installations"),
              Ev3("init_mutex", "mutex_cross_thread_write_logging",
                  "cross thread write logging output")}

\* C12: when the initialisation of a mutex fails, the diagnostic names that
\* mutex and no other mutex of the instance, nothing follows it but the
\* exit, the status is not zero, and bootstrap never returns.
C12_MutexFailureNamed ==
    \A i \in CallsOf("uv_mutex_init_failed") :
        /\ Len(trace) = i + 2
        /\ trace[i + 1].op = "fprintf" /\ trace[i + 1].obj = "stderr"
        /\ \A s \in InitMutexSites :
                s.arg = trace[i + 1].arg <=> s.obj = trace[i].obj
        /\ trace[i + 2].op = "exit"
        /\ pc = "exited" /\ exit_status # 0

\* What a call releases: the mutex, block, hash, stream or structure it is
\* applied to.
Released(e) ==
    IF e.op \in {"uv_mutex_destroy", "MVM_free", "MVM_HASH_DESTROY", "fclose",
                 "MVM_tc_destroy", "MVM_fixed_size_destroy",
                 "MVM_callsite_destroy"}
    THEN {e.obj}
    ELSE IF e.op = "MVM_nfg_destroy" THEN {"nfg"} ELSE {}

\* What a call uses: what it is applied to, the NFG state for its mutex and
\* its destruction, and the instance, whose fields every call reads.
Uses(e) ==
    {e.obj, "instance"}
        \cup (IF e.obj = "nfg->update_mutex" \/ e.op = "MVM_nfg_destroy"
              THEN {"nfg"} ELSE {})

ReleasingCalls == {i \in 1..Len(trace) : Released(trace[i]) # {}}

\* C13: nothing is used or released again after it has been released; when
\* destroy_instance has returned, the main thread's context was destroyed
\* once, as the last thing before the instance, and the instance was freed
\* once, by the last call.
C13_TeardownSafe ==
    /\ \A i \in ReleasingCalls : \A j \in (i + 1)..Len(trace) :
            Released(trace[i]) \cap Uses(trace[j]) = {}
    /\ pc = "destroyed" =>
            /\ trace[Len(trace)] = Ev("MVM_free", "instance")
            /\ trace[Len(trace) - 1] = Ev("MVM_tc_destroy", "main_thread")
            /\ Count("MVM_free", "instance") = 1
            /\ Count("MVM_tc_destroy", "main_thread") = 1

\* An instance with an open specializer log was destroyed after its threads
\* were joined.
C13_Witness ==
    /\ pc = "destroyed"
    /\ DOMAIN threads # {}
    /\ Running = {}
    /\ instance.spesh_log_fh = "spesh_log"
    /\ Count("fclose", "spesh_log") = 1
    /\ Count("MVM_tc_destroy", "main_thread") = 1

(***************************************************************************)
(* Claims about the callsite intern pool, checked under SpecInterns.       *)
(***************************************************************************)

\* The callsites the pool holds.
PoolCallsites ==
    {instance.callsite_interns[a][k] :
        <<a, k>> \in {<<b, l>> \in (1..MVM_INTERN_ARITY_LIMIT)
                                        \X (1..(MaxInterned + 1)) :
                        l <= Len(instance.callsite_interns[b])}}

\* Every call of op follows the destruction of the pool's mutex.
AfterPoolMutex(op) ==
    \A i \in CallsOf(op) :
        (op = "MVM_free" =>
            trace[i].obj \in {ByArityName(a - 1) : a \in 1..MVM_INTERN_ARITY_LIMIT}
                                \cup {"callsite_interns"}) =>
        \E j \in 1..(i - 1) :
            trace[j] = Ev("uv_mutex_destroy", "mutex_callsite_interns")

\* C14: once destroy_instance has returned, whatever the pool held, each of
\* its callsites that is not common has been destroyed once, no common
\* callsite and nothing else has been destroyed, the list of each arity
\* that has callsites and the pool have been freed once, the list of an
\* arity without callsites has not, and all this after the destruction of
\* the pool's mutex.
C14_InternsCleanedUp ==
    pc = "destroyed" =>
        /\ \A c \in PoolCallsites :
                Count("MVM_callsite_destroy", c)
                    = (IF MVM_callsite_is_common(c) THEN 0 ELSE 1)
        /\ \A i \in CallsOf("MVM_callsite_destroy") :
                trace[i].obj \in PoolCallsites
        /\ \A a \in 1..MVM_INTERN_ARITY_LIMIT :
                Count("MVM_free", ByArityName(a - 1))
                    = (IF Len(instance.callsite_interns[a]) # 0 THEN 1 ELSE 0)
        /\ Count("MVM_free", "callsite_interns") = 1
        /\ AfterPoolMutex("MVM_callsite_destroy")
        /\ AfterPoolMutex("MVM_free")

\* A pool with the common callsite and another one of the same arity, and
\* a list without callsites, has been cleaned up.
C14_Witness ==
    /\ pc = "destroyed"
    /\ Len(instance.callsite_interns[1]) = 2
    /\ Len(instance.callsite_interns[MVM_INTERN_ARITY_LIMIT]) = 0
    /\ Count("MVM_callsite_destroy", CallsiteName(0, 2)) = 1
    /\ Count("MVM_free", ByArityName(0)) = 1

(***************************************************************************)
(* Further claims about the life cycle, checked under Spec.                *)
(***************************************************************************)

\* Bootstrap is past the coverage toggle.
PastCoverage == env["MVM_COVERAGE_LOG"] # "unread" /\ pc # "boot_coverage"

\* C15: with COVERAGE_LOG in the environment and empty, coverage logging is
\* enabled after bootstrap, its sink is stderr, no file was opened for it,
\* and the toggle raised the instrumentation level by exactly 1; with
\* COVERAGE_LOG absent, coverage logging is disabled, it has no sink, and
\* the toggle left the level alone.
C15_CoverageToggle ==
    /\ [](PastCoverage /\ env["MVM_COVERAGE_LOG"] = "" =>
            /\ instance.coverage_logging = 1
            /\ instance.coverage_log_fh = "stderr"
            /\ Count("fopen_perhaps_with_pid", "coverage_log") = 0
            /\ Count("fopen", "coverage_log") = 0)
    /\ [](PastCoverage /\ env["MVM_COVERAGE_LOG"] = "NULL" =>
            /\ instance.coverage_logging = 0
            /\ instance.coverage_log_fh = "NULL"
            /\ Count("fopen_perhaps_with_pid", "coverage_log") = 0)
    /\ [][pc = "boot_coverage" =>
            instance'.instrumentation_level =
                instance.instrumentation_level
                    + (IF env'["MVM_COVERAGE_LOG"] = "NULL" THEN 0 ELSE 1)]_vars

\* The scenario of the spec: bootstrap has returned with COVERAGE_LOG="",
\* coverage logging on stderr, and no other diagnostic: level 2.
C15_Witness ==
    /\ pc = "ready"
    /\ env["MVM_COVERAGE_LOG"] = ""
    /\ env["MVM_CROSS_THREAD_WRITE_LOG"] = "NULL"
    /\ instance.coverage_logging = 1
    /\ instance.coverage_log_fh = "stderr"
    /\ instance.instrumentation_level = 2

\* MVM_vm_exit has ended the process.
FastExited == pc = "exited" /\ exit_status = 0

\* The end marker of the dynamic-variable log.
EndMarkers ==
    {i \in CallsOf("fprintf") : trace[i].arg = "- x 0 0 0 0"}

\* The order of a fast exit: one join, before every close and the end
\* marker; the end marker once, before the close of its sink, when that
\* sink is open; exit(0) last; no step of the full teardown; and nothing
\* closed while the join still waits for a thread.
FastExitOrder ==
    /\ FastExited =>
        /\ Count("MVM_thread_join_foreground", "main_thread") = 1
        /\ \A i \in CallsOf("fclose") \cup EndMarkers :
                \E j \in 1..(i - 1) : trace[j].op = "MVM_thread_join_foreground"
        /\ Cardinality(EndMarkers)
                = (IF instance.dynvar_log_fh # "NULL" THEN 1 ELSE 0)
        /\ \A i \in EndMarkers :
                /\ trace[i].obj = instance.dynvar_log_fh
                /\ \E j \in (i + 1)..Len(trace) :
                        trace[j] = Ev("fclose", instance.dynvar_log_fh)
        /\ trace[Len(trace)] = Ev("exit", "0")
        /\ Count("exit", "0") = 1
        /\ \A i \in 1..Len(trace) : ~IsTeardownCall(trace[i])
    /\ (pc = "exit_join" /\ Running # {}) =>
            CallsOf("fclose") \cup EndMarkers = {}

\* C16, as stated: a fast exit keeps that order and closes every log sink
\* that is open, once.
C16_Original ==
    /\ FastExitOrder
    /\ FastExited =>
        \A sink \in Sinks :
            Count("fclose", sink) = (IF Opened(sink) THEN 1 ELSE 0)

\* The sinks MVM_vm_exit closes itself.
ExitSinks == {"spesh_log", "jit_log", "jit_bytecode_map", "dynvar_log"}

\* C16, amended: a fast exit keeps that order and closes, once, each open
\* sink among the specializer log, the JIT log, the JIT bytecode map and the
\* dynamic-variable log; it does not close the coverage log, which is still
\* open when exit(0) is called.
C16_FastExit ==
    /\ FastExitOrder
    /\ FastExited =>
        /\ \A sink \in ExitSinks :
                Count("fclose", sink) = (IF Opened(sink) THEN 1 ELSE 0)
        /\ Count("fclose", "coverage_log") = 0
        /\ Count("fclose", "stderr") = 0

\* A fast exit after a thread was joined, with the dynamic-variable log and
\* the coverage log open.
C16_Witness ==
    /\ FastExited
    /\ DOMAIN threads # {}
    /\ instance.dynvar_log_fh = "dynvar_log"
    /\ instance.coverage_log_fh = "coverage_log"
    /\ Count("fclose", "dynvar_log") = 1

(***************************************************************************)
(* Claims about the mutexes at run time, checked under SpecLocks.          *)
(***************************************************************************)

\* Thread t waits for the mutex of the resource it is after.
Waits(t) ==
    lock_want[t] # "none" /\ GuardedBy[lock_want[t]] \notin lock_held[t]

\* The threads of D wait for one another: each waits for a mutex a thread
\* of D holds.
Deadlocked(D) ==
    /\ D # {}
    /\ \A t \in D :
        /\ Waits(t)
        /\ \E u \in D : GuardedBy[lock_want[t]] \in lock_held[u]

\* C17: no thread ever holds two of the per-resource mutexes; a mutex is
\* held by one thread at most, guards one resource only and was
\* initialised, once, before it was taken; and no set of threads waits for
\* one another.
C17_OneLockAtATime ==
    /\ \A t \in ThreadIds : Cardinality(lock_held[t]) <= 1
    /\ \A t, u \in ThreadIds : t # u => lock_held[t] \cap lock_held[u] = {}
    /\ \A t \in ThreadIds : \A m \in lock_held[t] : Count("init_mutex", m) = 1
    /\ \A r1, r2 \in Resources : GuardedBy[r1] = GuardedBy[r2] => r1 = r2
    /\ \A D \in SUBSET ThreadIds : ~Deadlocked(D)

\* The main thread and a spawned thread each hold a mutex while a third
\* thread waits for one of the two.
C17_Witness ==
    /\ lock_held[1] = {"mutex_permroots"}
    /\ lock_held[2] = {"mutex_repr_registry"}
    /\ lock_want[3] = "repr_registry"
    /\ lock_held[3] = {}

(***************************************************************************)
(* Claims about the specialization log, checked under SpecLog.             *)
(***************************************************************************)

\* C18: a buffer never holds more entries than its capacity, 4096 by
\* default, and a buffer handed off because it was full holds exactly its
\* capacity; an append to a full buffer that was not handed off yet is
\* dropped or hands the buffer off at once, always the same of the two for
\* a thread; a thread with a log can always append or hand off without
\* waiting for a worker; and after a handoff the thread logs to a fresh
\* buffer, never to one it has handed off.
C18_LogCapacity ==
    /\ [](/\ sl_used <= sl_limit
          /\ sl_limit \in {0, 4096, ConfiguredEntries}
          /\ \A k \in 1..Len(sl_sent) :
                /\ sl_sent[k].used <= sl_sent[k].limit
                /\ sl_sent[k].why = "full" =>
                        sl_sent[k].used = sl_sent[k].limit
                /\ sl_sent[k].id # sl_log
                /\ \A l \in 1..Len(sl_sent) :
                        sl_sent[k].id = sl_sent[l].id => k = l
          /\ (sl_log # 0 /\ Len(sl_sent) < MaxLogs) =>
                ENABLED (LogAppend \/ LogAppendFull))
    /\ [][(sl_log # 0 /\ sl_used = sl_limit /\ sl_last' # sl_last) =>
            \/ /\ sl_policy = "drop"
               /\ sl_last' = "dropped"
               /\ <<sl_log, sl_used, sl_sent>>' = <<sl_log, sl_used, sl_sent>>
            \/ /\ sl_policy = "handoff"
               /\ sl_last' = "handoff"
               /\ sl_sent' = Append(sl_sent, SentLog("full"))
               /\ sl_log' # sl_log
               /\ sl_used' = 1]_vars
    /\ [][sl_policy' = sl_policy]_vars

\* A buffer of the default capacity was handed off full, and the thread, on
\* its fresh buffer, had the append that followed dropped.
C18_Witness ==
    /\ Len(sl_sent) = 1
    /\ sl_sent[1].why = "full"
    /\ sl_sent[1].used = 4096
    /\ sl_log = 2
    /\ sl_last = "dropped"

(***************************************************************************)
(* Claims about the order of bootstrap, checked under Spec.                *)
(***************************************************************************)

\* Bootstrap has returned an instance.
Returned ==
    \/ pc \in {"ready", "exit_join", "destroy_join", "destroyed"}
    \/ pc = "exited" /\ exit_status = 0
    \/ pc = "crashed" /\ CallsOf("MVM_thread_join_foreground") # {}

\* The steps of bootstrap that are to allocate in long-lived storage: the
\* constant cache, Unicode and NFG, the base types, and every allocation of
\* a managed object.
IsLongLivedStep(e) ==
    \/ e.op \in {"MVM_unicode_init", "MVM_string_cclass_init", "MVM_nfg_init",
                 "MVM_6model_bootstrap", "MVM_repr_alloc_init", "allocate",
                 "MVM_callsite_initialize_common", "MVM_file_get_stdstream"}
    \/ e.obj \in {"mutex_int_const_cache", "int_const_cache",
                  "int_to_str_cache"} /\ e.op \in {"init_mutex", "MVM_calloc"}

Gen2Sets == CallsOf("MVM_gc_allocate_gen2_default_set")

Gen2Clears == CallsOf("MVM_gc_allocate_gen2_default_clear")

\* The last call bootstrap made.
LastBootCall ==
    CHOOSE i \in 1..Len(trace) :
        /\ trace[i].op # "MVM_thread_join_foreground"
        /\ i = Len(trace) \/ trace[i + 1].op = "MVM_thread_join_foreground"

\* C19: the default placement is switched to long-lived storage once,
\* before every step that is to allocate there, and is not switched back
\* before the last of them; it is switched back once, by the last call of
\* bootstrap, so that the placement of a returned instance is normal.
C19_Gen2DuringBootstrap ==
    LET sets == Gen2Sets
        clears == Gen2Clears
        steps == {i \in 1..Len(trace) : IsLongLivedStep(trace[i])}
    IN  /\ Cardinality(sets) <= 1
        /\ Cardinality(clears) <= 1
        /\ \A i \in steps :
                /\ \E j \in sets : j < i
                /\ \A k \in clears : i < k
        /\ \A k \in clears : \E j \in sets : j < k
        /\ Returned =>
                /\ Cardinality(sets) = 1
                /\ clears = {LastBootCall}
        /\ clears # {} => Returned

\* Bootstrap has returned with a log and the coverage log on stderr; the
\* standard handles were created in long-lived storage before the switch
\* back.
C19_Witness ==
    /\ pc = "ready"
    /\ instance.spesh_log_fh = "spesh_log"
    /\ instance.coverage_log_fh = "stderr"
    /\ Count("MVM_file_get_stdstream", "stderr_handle") = 1
    /\ trace[Len(trace)].op = "MVM_gc_allocate_gen2_default_clear"

\* The steps of bootstrap that can register a permanent root.
CanRegisterRoot(e) ==
    e.op \in {"MVM_6model_bootstrap", "MVM_callsite_initialize_common",
              "MVM_file_get_stdstream", "MVM_gc_root_add_permanent_desc"}

\* The calls that set the permanent roots up: the two arrays and the mutex.
PermrootSetup ==
    {Ev("MVM_malloc", "permroots"), Ev("MVM_malloc", "permroot_descriptions"),
     Ev3("init_mutex", "mutex_permroots", "permanent roots")}

StdHandles == {"stdin_handle", "stdout_handle", "stderr_handle"}

\* C20: before any step that can register a permanent root, the storage of
\* the set (no root, room for 16) and its mutex have been set up; and a
\* standard handle is registered once, after the one creation of its
\* handle object, all three when bootstrap returns.
C20_PermrootsFirst ==
    LET setup == {j \in 1..Len(trace) : trace[j] \in PermrootSetup}
        steps == {i \in 1..Len(trace) : CanRegisterRoot(trace[i])}
        handles == CallsOf("MVM_file_get_stdstream")
    IN
    /\ \A i \in steps :
            /\ \A s \in PermrootSetup :
                    \E j \in setup : j < i /\ trace[j] = s
            /\ instance.alloc_permroots = 16
    /\ pc \in {"start", "boot_core"} => instance.num_permroots = 0
    /\ \A i \in CallsOf("MVM_gc_root_add_permanent_desc") :
        /\ trace[i].obj \in StdHandles
        /\ \E j \in handles :
                j < i /\ trace[j] = Ev("MVM_file_get_stdstream", trace[i].obj)
    /\ \A h \in StdHandles :
        /\ Count("MVM_gc_root_add_permanent_desc", h) <= 1
        /\ Count("MVM_file_get_stdstream", h) <= 1
        /\ Returned => Count("MVM_gc_root_add_permanent_desc", h) = 1

\* Bootstrap has returned: the three handles are registered, after the
\* base types and the common callsites.
C20_Witness ==
    /\ pc = "ready"
    /\ instance.alloc_permroots = 16
    /\ \A h \in StdHandles : Count("MVM_gc_root_add_permanent_desc", h) = 1
    /\ Count("MVM_6model_bootstrap", "main_thread") = 1
    /\ Count("init_mutex", "mutex_permroots") = 1

(***************************************************************************)
(* Claims about MVM_vm_dump_file, checked under SpecDump.                  *)
(***************************************************************************)

\* s is the first Len(s) bytes of t.
IsPrefix(s, t) == Len(s) <= Len(t) /\ s = SubSeq(t, 1, Len(s))

\* Standard output holds the dump up to position, each byte once, in order.
WrittenUpToPosition ==
    /\ df_position = Len(df_out)
    /\ IsPrefix(df_out, df_dump)

\* C21: when the output loop of MVM_vm_dump_file has ended, standard output
\* has taken every byte of the dump once and in order, whatever write
\* returned on the way; while the loop runs no byte is skipped or written
\* twice, and a write that fails does not move the position.
C21_DumpWrittenOnce ==
    /\ [](df_pc = "done" => df_out = df_dump)
    /\ [](df_pc = "loop" => WrittenUpToPosition)
    /\ [][df_fails' # df_fails => df_position' = df_position]_vars

====
